---- MODULE Spec2Model ----
(***************************************************************************)
(* A model of build-modular-prompt.py: the ModularPromptBuilder that       *)
(* assembles an agent prompt from a template and component files.          *)
(*                                                                         *)
(* Text is a sequence of one-character strings, so that the reference      *)
(* pattern, str.strip, str.split and the XML parse are computed on         *)
(* characters, as the code computes them.                                  *)
(***************************************************************************)
EXTENDS Integers, Sequences, FiniteSets, TLC

(***************************************************************************)
(* Bounds of the model.                                                    *)
(***************************************************************************)
\* the number of pieces a template is made of
MaxPieces == 3
\* the number of times the parts-dir name is repeated in front of a path token
MaxSegs == 2

(***************************************************************************)
(* Characters and strings.                                                 *)
(***************************************************************************)
NL == "\n"

\* the whitespace of the model's alphabet: what \s and str.strip() remove
IsSpace(c) == c \in {" ", NL}

StartsWithAt(s, i, lit) ==
    /\ i >= 1
    /\ i + Len(lit) - 1 <= Len(s)
    /\ SubSeq(s, i, i + Len(lit) - 1) = lit

\* str.startswith
startswith(s, lit) == StartsWithAt(s, 1, lit)

\* s[i:] of Python, with i a 1-based position
From(s, i) == SubSeq(s, i, Len(s))

\* the least j >= i with s[j] = c, or 0
RECURSIVE IndexFrom(_, _, _)
IndexFrom(s, i, c) ==
    IF i > Len(s) THEN 0
    ELSE IF s[i] = c THEN i
    ELSE IndexFrom(s, i + 1, c)

\* the least j >= i with s[j] not whitespace, or Len(s) + 1
RECURSIVE SkipSpace(_, _)
SkipSpace(s, i) ==
    IF i > Len(s) THEN i
    ELSE IF IsSpace(s[i]) THEN SkipSpace(s, i + 1)
    ELSE i

\* the greatest j <= i with s[j] not whitespace, or 0
RECURSIVE SkipSpaceBack(_, _)
SkipSpaceBack(s, i) ==
    IF i < 1 THEN 0
    ELSE IF IsSpace(s[i]) THEN SkipSpaceBack(s, i - 1)
    ELSE i

\* str.strip(): leading and trailing whitespace removed
strip(s) == SubSeq(s, SkipSpace(s, 1), SkipSpaceBack(s, Len(s)))

\* str.rstrip(): trailing whitespace removed
rstrip(s) == SubSeq(s, 1, SkipSpaceBack(s, Len(s)))

\* the least j >= i at which lit starts in s, or 0
RECURSIVE FindLit(_, _, _)
FindLit(s, i, lit) ==
    IF i + Len(lit) - 1 > Len(s) THEN 0
    ELSE IF StartsWithAt(s, i, lit) THEN i
    ELSE FindLit(s, i + 1, lit)

\* the concatenation of a sequence of strings
RECURSIVE Concat(_)
Concat(ss) == IF ss = <<>> THEN <<>> ELSE Head(ss) \o Concat(Tail(ss))

(***************************************************************************)
(* The literals of the reference pattern (lines 50-53).                    *)
(***************************************************************************)
\* "<!-- REFERENCE: "
RefOpen == <<"<","!","-","-"," ","R","E","F","E","R","E","N","C","E",":"," ">>
\* "<!-- "
CommentOpen == <<"<","!","-","-"," ">>
\* " -->"
CommentClose == <<" ","-","-",">">>

NoMatch == [start |-> 0]

\* [^>]+ followed by " -->", the group starting at i: the position of the ">"
\* that closes it, or 0.  No character of the group and none of " --" is a
\* ">", so the ">" of " -->" is the first ">" at or after i, and the group,
\* which is not empty, is all of s[i .. g-4]: the match is unique.
GroupEnd(s, i) ==
    LET g == IndexFrom(s, i, ">")
    IN  IF g # 0 /\ g - 4 >= i /\ SubSeq(s, g - 3, g) = CommentClose
        THEN g ELSE 0

\* the pattern with anything at all let through between the two comments
reference_pattern_lax(s, i) ==
    IF ~StartsWithAt(s, i, RefOpen) THEN NoMatch
    ELSE LET g == GroupEnd(s, i + Len(RefOpen))
         IN  IF g = 0 THEN NoMatch
             ELSE LET w == FindLit(s, g + 1, CommentOpen)
                  IN  IF ~StartsWithAt(s, w, CommentOpen) THEN NoMatch
                      ELSE LET h == GroupEnd(s, w + Len(CommentOpen))
                           IN  IF h = 0 THEN NoMatch
                               ELSE [start |-> i, end |-> h,
                                     g1 |-> SubSeq(s, i + Len(RefOpen), g - 4),
                                     g2 |-> SubSeq(s, w + Len(CommentOpen), h - 4)]

\* reference_pattern.match(s, i): the match of
\*   <!-- REFERENCE: ([^>]+) -->\s*<!-- ([^>]+) -->
\* that starts at position i, or NoMatch.  \s* is followed by "<", which is
\* not whitespace, so it takes all the whitespace there is.
reference_pattern(s, i) ==
    IF ~StartsWithAt(s, i, RefOpen) THEN NoMatch
    ELSE LET g == GroupEnd(s, i + Len(RefOpen))
         IN  IF g = 0 THEN NoMatch
             ELSE LET w == SkipSpace(s, g + 1)
                  IN  IF ~StartsWithAt(s, w, CommentOpen) THEN NoMatch
                      ELSE LET h == GroupEnd(s, w + Len(CommentOpen))
                           IN  IF h = 0 THEN NoMatch
                               ELSE [start |-> i, end |-> h,
                                     g1 |-> SubSeq(s, i + Len(RefOpen), g - 4),
                                     g2 |-> SubSeq(s, w + Len(CommentOpen), h - 4)]

\* reference_pattern.finditer(s), from position i: the matches, left to
\* right, none overlapping another
RECURSIVE finditer(_, _)
finditer(s, i) ==
    IF i > Len(s) THEN <<>>
    ELSE LET m == reference_pattern(s, i)
         IN  IF m = NoMatch THEN finditer(s, i + 1)
             ELSE <<m>> \o finditer(s, m.end + 1)

\* reference_pattern.findall(template_content) (line 170)
findall(s) == finditer(s, 1)

(***************************************************************************)
(* The state: the file system the builder reads and writes, the arguments  *)
(* of the run, and the builder's position and locals.                      *)
(***************************************************************************)
VARIABLES
    pc,               \* the position of main/build
    template_file,    \* the template file: [exists, text]
    parts_exists,     \* whether the parts directory exists
    files,            \* the component files: full path -> [kind, text]
    validate,         \* the --validate flag
    out_dir,          \* whether the output file's parent directory exists
    out_file,         \* the output file: [exists, text]
    out_before,       \* the output location before the build: [dir, file]
    template_content, \* build's local (line 164)
    references,       \* build's local (line 170)
    resolved,         \* the calls of read_component made by the substitution
    final_content,    \* build's local (line 177)
    printed,          \* the messages printed (verbose off)
    result,           \* build's outcome: "none", "True", "False" or "raised"
    exit_code,        \* the process exit status, or -1 while running
    did,              \* the steps the run has performed
    component_path,   \* the argument of a lone read_component call
    rc                \* what the lone read_component calls returned

vars == <<pc, template_file, parts_exists, files, validate, out_dir, out_file,
          out_before, template_content, references, resolved, final_content,
          printed, result, exit_code, did, component_path, rc>>

\* a file that does not exist, and one that holds text
NoFile == [exists |-> FALSE, text |-> <<>>]
Holding(t) == [exists |-> TRUE, text |-> t]

(***************************************************************************)
(* Paths (lines 42-45).                                                    *)
(***************************************************************************)
\* Path("modules") / agent_name, the agent named x
agent_dir == <<"m","o","d","u","l","e","s","/","x">>
\* the --parts-dir argument, which is also parts_dir.name
parts_dir_name == <<"p">>

\* pathlib's "/" on a directory and a relative path given as text
PathJoin(dir, rel) ==
    IF rel = <<>> THEN dir
    ELSE IF rel[1] = "/" THEN rel
    ELSE dir \o <<"/">> \o rel

parts_dir == PathJoin(agent_dir, parts_dir_name)

(***************************************************************************)
(* The component files.  A file is [kind, text]:                           *)
(*   "missing"     no such file: exists() is False                         *)
(*   "file"        a readable file holding text                            *)
(*   "unreadable"  exists() is True and open() or read() raises            *)
(*   "staterr"     os.stat fails with an error exists() does not swallow   *)
(*                 (a name too long, a directory that may not be searched):*)
(*                 Path.exists() re-raises every OSError but ENOENT,       *)
(*                 ENOTDIR, EBADF and ELOOP                                *)
(***************************************************************************)
Missing == [kind |-> "missing", text |-> <<>>]
Unreadable == [kind |-> "unreadable", text |-> <<>>]
StatErr == [kind |-> "staterr", text |-> <<>>]
File(t) == [kind |-> "file", text |-> t]

FileAt(path) == IF path \in DOMAIN files THEN files[path] ELSE Missing

\* str(e) of the exception open() raises on an unreadable file
StrError == <<"[","E","r","r","n","o"," ","1","3","]"," ","P","e","r","m","i","s","s","i","o","n"," ","d","e","n","i","e","d">>

NotFoundMsg == <<"E","R","R","O","R",":"," ","C","o","m","p","o","n","e","n","t"," ","f","i","l","e"," ","n","o","t"," ","f","o","u","n","d",":"," ">>
FailedMsg == <<"E","R","R","O","R",":"," ","F","a","i","l","e","d"," ","t","o"," ","r","e","a","d"," ">>
XmlPrefix == <<"<","?","x","m","l">>

\* f"<!-- {text} -->"
Comment(text) == CommentOpen \o text \o CommentClose

\* content.split('\n')[0]
FirstLine(content) ==
    LET n == IndexFrom(content, 1, NL)
    IN  IF n = 0 THEN content ELSE SubSeq(content, 1, n - 1)

\* '\n'.join(content.split('\n')[1:])
AfterFirstLine(content) ==
    LET n == IndexFrom(content, 1, NL)
    IN  IF n = 0 THEN <<>> ELSE From(content, n + 1)

\* lines 85-88: the XML declaration removed from a component's text
RemoveDeclaration(content) ==
    IF startswith(strip(FirstLine(content)), XmlPrefix)
    THEN AfterFirstLine(content)
    ELSE content

\* the parts-dir prefix removed as often as it leads the path
RECURSIVE StripAllPartsPrefixes(_)
StripAllPartsPrefixes(path) ==
    IF startswith(path, parts_dir_name \o <<"/">>)
    THEN StripAllPartsPrefixes(From(path, Len(parts_dir_name) + 2))
    ELSE path

\* lines 70-72: the parts-dir prefix removed from the path, once
StripPartsPrefix(path) ==
    IF startswith(path, parts_dir_name \o <<"/">>)
    THEN From(path, Len(parts_dir_name) + 2)
    ELSE path

\* read_component (lines 60-96): [content, success, raised, full_path];
\* raised is an exception that leaves read_component (exists() is outside
\* the try), full_path the file the path was resolved to
read_component(path) ==
    LET stripped == StripPartsPrefix(path)
        full_path == PathJoin(parts_dir, stripped)
        f == FileAt(full_path)
    IN  CASE f.kind = "staterr" ->
               [content |-> <<>>, success |-> FALSE, raised |-> TRUE,
                full_path |-> full_path]
          [] f.kind = "missing" ->
               [content |-> Comment(NotFoundMsg \o full_path),
                success |-> FALSE, raised |-> FALSE, full_path |-> full_path]
          [] f.kind = "unreadable" ->
               [content |-> Comment(FailedMsg \o stripped \o <<":"," ">> \o StrError),
                success |-> FALSE, raised |-> FALSE, full_path |-> full_path]
          [] OTHER ->
               [content |-> RemoveDeclaration(f.text),
                success |-> TRUE, raised |-> FALSE, full_path |-> full_path]

SourceLabel == <<"S","O","U","R","C","E",":"," ">>

\* the provenance comment naming the path as read_component resolved it
SourceCommentResolved(path) == Comment(SourceLabel \o StripPartsPrefix(path))

\* line 118: the provenance comment of a replacement
SourceComment(path) == Comment(SourceLabel \o path)

\* replace_reference (lines 98-121) on a match: the replacement text, the
\* call of read_component it made, and whether that call raised
replace_reference(m) ==
    LET path == strip(m.g1)
        description == strip(m.g2)
        r == read_component(path)
    IN  [text |-> Comment(description) \o <<NL>> \o SourceComment(path)
                  \o <<NL>> \o r.content,
         call |-> [path |-> path, full_path |-> r.full_path,
                   content |-> r.content, success |-> r.success],
         raised |-> r.raised]

\* reference_pattern.sub(self.replace_reference, s), with the matches ms
\* still to come and pos the first position not yet copied: the text, the
\* read_component calls made, and whether one raised (which ends the sub)
RECURSIVE sub_from(_, _, _)
sub_from(s, ms, pos) ==
    IF ms = <<>>
    THEN [text |-> From(s, pos), calls |-> <<>>, raised |-> FALSE]
    ELSE LET m == Head(ms)
             r == replace_reference(m)
         IN  IF r.raised
             THEN [text |-> <<>>, calls |-> <<>>, raised |-> TRUE]
             ELSE LET rest == sub_from(s, Tail(ms), m.end + 1)
                  IN  [text |-> SubSeq(s, pos, m.start - 1) \o r.text \o rest.text,
                       calls |-> <<r.call>> \o rest.calls,
                       raised |-> rest.raised]

\* a substitution that scans its own output once more
sub_rescan(s) ==
    LET first == sub_from(s, finditer(s, 1), 1)
        second == sub_from(first.text, finditer(first.text, 1), 1)
    IN  IF first.raised THEN first
        ELSE [text |-> second.text, calls |-> first.calls \o second.calls,
              raised |-> second.raised]

\* line 177: one pass over the template
sub(s) == sub_from(s, finditer(s, 1), 1)

(***************************************************************************)
(* validate_xml (lines 123-137): ET.fromstring raises ParseError unless    *)
(* the text is a well-formed document.  The parse, on the model's          *)
(* alphabet: comments, the XML declaration, tags without attributes, and   *)
(* character data.                                                         *)
(***************************************************************************)
XmlDeclaration == <<"<","?","x","m","l"," ","v","e","r","s","i","o","n","=","\"","1",".","0","\"","?",">">>
Letters == {"a", "d", "i", "j", "x", "H", "p"}

IsName(n) == n # <<>> /\ \A k \in 1..Len(n) : n[k] \in Letters

\* the parse from position i, inside the open elements of stack, with
\* root_seen telling whether the document element has been closed
RECURSIVE xml_parse(_, _, _, _)
xml_parse(s, i, stack, root_seen) ==
    IF i > Len(s) THEN stack = <<>> /\ root_seen
    ELSE IF StartsWithAt(s, i, <<"<","!","-","-">>) THEN
        \* a comment ends at the first "--", which must be that of "-->"
        LET e == FindLit(s, i + 4, <<"-","-">>)
        IN  /\ e # 0
            /\ StartsWithAt(s, e, <<"-","-",">">>)
            /\ xml_parse(s, e + 3, stack, root_seen)
    ELSE IF StartsWithAt(s, i, <<"<","?">>) THEN
        \* the XML declaration, at the start of the document only
        /\ i = 1
        /\ StartsWithAt(s, i, XmlDeclaration)
        /\ xml_parse(s, i + Len(XmlDeclaration), stack, root_seen)
    ELSE IF StartsWithAt(s, i, <<"<","/">>) THEN
        \* an end tag closes the innermost open element
        LET g == IndexFrom(s, i, ">")
        IN  /\ g # 0
            /\ stack # <<>>
            /\ SubSeq(s, i + 2, g - 1) = stack[Len(stack)]
            /\ xml_parse(s, g + 1, SubSeq(stack, 1, Len(stack) - 1),
                         root_seen \/ Len(stack) = 1)
    ELSE IF s[i] = "<" THEN
        \* a start tag or an empty-element tag; one document element only
        LET g == IndexFrom(s, i, ">")
            empty == g # 0 /\ s[g - 1] = "/"
            name == IF empty THEN SubSeq(s, i + 1, g - 2) ELSE SubSeq(s, i + 1, g - 1)
        IN  /\ g # 0
            /\ IsName(name)
            /\ ~(stack = <<>> /\ root_seen)
            /\ IF empty
               THEN xml_parse(s, g + 1, stack, root_seen \/ stack = <<>>)
               ELSE xml_parse(s, g + 1, Append(stack, name), root_seen)
    ELSE
        \* character data: outside the document element, whitespace only
        /\ stack # <<>> \/ IsSpace(s[i])
        /\ xml_parse(s, i + 1, stack, root_seen)

\* is_valid of validate_xml(content)
validate_xml(content) == xml_parse(content, 1, <<>>, FALSE)

(***************************************************************************)
(* The inputs: templates made of pieces, and component files.              *)
(***************************************************************************)
PathA == <<"a">>
PathPA == parts_dir_name \o <<"/">> \o PathA
Description == <<"d">>

\* <!-- REFERENCE: a -->, <!-- REFERENCE: p/a --> and <!-- d -->
RefA == RefOpen \o PathA \o CommentClose
RefPA == RefOpen \o PathPA \o CommentClose
Desc == Comment(Description)
\* a marker: the two comments, adjacent
MarkerA == RefA \o Desc
MarkerPA == RefPA \o Desc
\* markup that is not a comment
Markup == <<"<","x",">">>

Pieces == {MarkerA, MarkerPA, RefA, Desc, Markup, <<NL>>}

Templates ==
    {Concat(ps) : ps \in UNION {[1..n -> Pieces] : n \in 0..MaxPieces}}

\* component texts: a body, a body under a declaration line, and a text
\* that is itself a REFERENCE comment
Body == <<"<","i",">","H","<","/","i",">">>
WithHeader == XmlDeclaration \o <<NL>> \o Body
OtherBody == <<"<","j","/",">">>
\* a declaration and the body on one line; a declaration after leading
\* blanks; a declaration before trailing blanks
OneLine == XmlDeclaration \o Body
Indented == <<" ">> \o XmlDeclaration \o <<NL>> \o Body
Trailing == XmlDeclaration \o <<" ", NL>> \o Body

FullA == PathJoin(parts_dir, PathA)
FullPA == PathJoin(parts_dir, PathPA)

AllMissing == [f \in {FullA, FullPA} |-> Missing]

\* the parts directory of a build: the component a, in each of its kinds
BuildFiles ==
    {[AllMissing EXCEPT ![FullA] = k] :
        k \in {Missing, Unreadable, StatErr, File(Body), File(WithHeader), File(RefA)}}

\* the output location before the build: no directory, a directory without
\* the file, and a file left by an earlier build
OldOutput == <<"o","l","d">>
OutputsBefore ==
    {[dir |-> FALSE, file |-> NoFile], [dir |-> TRUE, file |-> NoFile],
     [dir |-> TRUE, file |-> Holding(OldOutput)]}

(***************************************************************************)
(* main and build (lines 139-201, 269-281).                                *)
(***************************************************************************)
ErrTemplate == "ERROR: Template file not found"
ErrParts == "ERROR: Parts directory not found"
ErrRead == "ERROR: Failed to read template file"
WarnNoReferences == "WARNING: No component references found in template"
ErrXml == "ERROR: XML validation failed"
ErrWrite == "ERROR: Failed to write output file"

Init ==
    /\ pc = "start"
    /\ \/ /\ template_file \in {Holding(t) : t \in Templates}
          /\ parts_exists = TRUE
          /\ files \in BuildFiles
       \/ /\ template_file \in {Holding(t) : t \in Templates}
          /\ parts_exists = FALSE
          /\ files = AllMissing
       \/ /\ template_file = NoFile
          /\ parts_exists \in BOOLEAN
          /\ files = AllMissing
    /\ validate \in BOOLEAN
    /\ out_before \in OutputsBefore
    /\ out_dir = out_before.dir
    /\ out_file = out_before.file
    /\ template_content = <<>>
    /\ references = <<>>
    /\ resolved = <<>>
    /\ final_content = <<>>
    /\ printed = {}
    /\ result = "none"
    /\ exit_code = -1
    /\ did = {}
    /\ component_path = <<>>
    /\ rc = <<>>

\* build returns r and main ends the process (lines 269-281); an exception
\* that leaves build ends it with status 1 as well
Return(r) ==
    /\ result' = r
    /\ exit_code' = (IF r = "True" THEN 0 ELSE 1)
    /\ pc' = "exited"

\* the preconditions with the parts directory left unchecked
PreconditionErrorTemplateOnly ==
    IF ~template_file.exists THEN {ErrTemplate} ELSE {}

\* lines 149-157: the error of the first precondition that fails, if any
PreconditionError ==
    IF ~template_file.exists THEN {ErrTemplate}
    ELSE IF ~parts_exists THEN {ErrParts}
    ELSE {}

\* lines 149-167: the preconditions, and the template read
Preconditions ==
    /\ pc = "start"
    /\ IF PreconditionError # {}
       THEN /\ printed' = printed \cup PreconditionError
            /\ Return("False")
            /\ UNCHANGED <<template_content, did>>
       ELSE \E readable \in BOOLEAN :
              IF readable
              THEN /\ template_content' = template_file.text
                   /\ did' = did \cup {"read_template"}
                   /\ pc' = "substitute"
                   /\ UNCHANGED <<printed, result, exit_code>>
              ELSE /\ printed' = printed \cup {ErrRead}
                   /\ Return("False")
                   /\ UNCHANGED <<template_content, did>>
    /\ UNCHANGED <<template_file, parts_exists, files, validate, out_dir,
                   out_file, out_before, references, resolved, final_content,
                   component_path, rc>>

\* the warning with its test inverted
WarningInverted(refs) == IF refs # <<>> THEN {WarnNoReferences} ELSE {}

\* lines 173-174: the warning of a template without references
Warning(refs) == IF refs = <<>> THEN {WarnNoReferences} ELSE {}

\* lines 169-177: the references counted, the warning, the substitution
Substitute ==
    /\ pc = "substitute"
    /\ LET refs == findall(template_content)
           r == sub(template_content)
       IN  /\ references' = refs
           /\ printed' = printed \cup Warning(refs)
           /\ resolved' = r.calls
           /\ did' = did \cup {"scan"}
                         \cup (IF refs = <<>> THEN {} ELSE {"read_component"})
           /\ IF r.raised
              THEN /\ Return("raised")
                   /\ UNCHANGED final_content
              ELSE /\ final_content' = r.text
                   /\ pc' = "validate"
                   /\ UNCHANGED <<result, exit_code>>
    /\ UNCHANGED <<template_file, parts_exists, files, validate, out_dir,
                   out_file, out_before, template_content, component_path, rc>>

\* a validation whose verdict is not acted on
ValidationIgnored == FALSE

\* lines 180-183: the validation was asked for and the parse failed
ValidationFails == validate /\ ~validate_xml(final_content)

\* lines 179-186: the validation, when asked for
Validate ==
    /\ pc = "validate"
    /\ IF ValidationFails
       THEN /\ printed' = printed \cup {ErrXml}
            /\ Return("False")
       ELSE /\ pc' = "write"
            /\ UNCHANGED <<printed, result, exit_code>>
    /\ did' = IF validate THEN did \cup {"validate"} ELSE did
    /\ UNCHANGED <<template_file, parts_exists, files, validate, out_dir,
                   out_file, out_before, template_content, references,
                   resolved, final_content, component_path, rc>>

\* what a failed f.write or close may leave of the text in the file
PartialWrites(text) == {<<>>, SubSeq(text, 1, Len(text) \div 2)}

\* lines 188-201: mkdir of the parent, open(..., 'w'), f.write; each may
\* raise, and what was done before it stays done
WriteOutput ==
    /\ pc = "write"
    /\ \/ \* mkdir raises
          /\ ~out_dir
          /\ did' = did \cup {"mkdir"}
          /\ printed' = printed \cup {ErrWrite}
          /\ Return("False")
          /\ UNCHANGED <<out_dir, out_file>>
       \/ \* open raises
          /\ out_dir' = TRUE
          /\ did' = did \cup {"mkdir", "open"}
          /\ printed' = printed \cup {ErrWrite}
          /\ Return("False")
          /\ UNCHANGED out_file
       \/ \* open has truncated the file, and f.write or the close raises
          /\ out_dir' = TRUE
          /\ \E t \in PartialWrites(final_content) : out_file' = Holding(t)
          /\ did' = did \cup {"mkdir", "open", "write"}
          /\ printed' = printed \cup {ErrWrite}
          /\ Return("False")
       \/ \* the text is written
          /\ out_dir' = TRUE
          /\ out_file' = Holding(final_content)
          /\ did' = did \cup {"mkdir", "open", "write"}
          /\ Return("True")
          /\ UNCHANGED printed
    /\ UNCHANGED <<template_file, parts_exists, files, validate, out_before,
                   template_content, references, resolved, final_content,
                   component_path, rc>>

Next == Preconditions \/ Substitute \/ Validate \/ WriteOutput

Spec == Init /\ [][Next]_vars

(***************************************************************************)
(* read_component on its own: a path token, and the same token behind the  *)
(* parts-dir name, resolved over the same component files.                 *)
(***************************************************************************)
PathB == <<"b">>
Prefix == parts_dir_name \o <<"/">>

RECURSIVE Prefixed(_, _)
Prefixed(path, k) == IF k = 0 THEN path ELSE Prefix \o Prefixed(path, k - 1)

PathTokens == {Prefixed(b, k) : b \in {PathA, PathB}, k \in 0..MaxSegs}

ReadFiles ==
    {[AllMissing EXCEPT ![FullA] = ka, ![FullPA] = kb] :
        ka \in {Missing, Unreadable, StatErr, File(Body), File(WithHeader),
                File(OneLine), File(Indented), File(Trailing)},
        kb \in {Missing, File(OtherBody)}}

InitRead ==
    /\ pc = "read"
    /\ component_path \in PathTokens
    /\ files \in ReadFiles
    /\ parts_exists = TRUE
    /\ template_file = NoFile
    /\ validate = FALSE
    /\ out_before = [dir |-> FALSE, file |-> NoFile]
    /\ out_dir = FALSE
    /\ out_file = NoFile
    /\ template_content = <<>>
    /\ references = <<>>
    /\ resolved = <<>>
    /\ final_content = <<>>
    /\ printed = {}
    /\ result = "none"
    /\ exit_code = -1
    /\ did = {}
    /\ rc = <<>>

\* rc[1]: read_component(component_path); rc[2]: read_component of the
\* same path behind "<parts-dir name>/"
ReadComponents ==
    /\ pc = "read"
    /\ rc' = <<read_component(component_path),
               read_component(Prefix \o component_path)>>
    /\ pc' = "read_done"
    /\ UNCHANGED <<template_file, parts_exists, files, validate, out_dir,
                   out_file, out_before, template_content, references,
                   resolved, final_content, printed, result, exit_code, did,
                   component_path>>

NextRead == ReadComponents

SpecRead == InitRead /\ [][NextRead]_vars

(***************************************************************************)
(* What the claims speak of.                                               *)
(***************************************************************************)
\* the substitution has run to its end: final_content is the assembled text
Assembled == "scan" \in did /\ result # "raised"

OutputUntouched == out_dir = out_before.dir /\ out_file = out_before.file

Failed == pc = "exited" /\ result = "False" /\ exit_code # 0

(***************************************************************************)
(* C1: with validate set and an assembled output that is not well-formed,  *)
(* the build returns failure with a non-zero exit status, the parse error  *)
(* is reported, and the output location is as it was before the build.     *)
(***************************************************************************)
C1_ValidationFailureWithholdsOutput ==
    (Assembled /\ pc # "validate" /\ validate /\ ~validate_xml(final_content))
        => /\ Failed
           /\ ErrXml \in printed
           /\ OutputUntouched
           /\ did \cap {"mkdir", "open", "write"} = {}

\* an ill-formed assembly of a template with a marker, over an old output
C1_Witness ==
    /\ Assembled /\ pc = "exited" /\ validate
    /\ ~validate_xml(final_content)
    /\ references # <<>>
    /\ out_before.file.exists

(***************************************************************************)
(* C2: without the template file or without the parts directory the build  *)
(* stops at the preconditions: nothing is scanned, no component is read,   *)
(* nothing is created or written, an error is reported and the build       *)
(* fails with a non-zero exit status.                                      *)
(***************************************************************************)
C2_MissingPreconditionAborts ==
    (~template_file.exists \/ ~parts_exists)
        => /\ pc \in {"start", "exited"}
           /\ did = {}
           /\ references = <<>> /\ resolved = <<>>
           /\ OutputUntouched
           /\ pc = "exited"
                => /\ Failed
                   /\ printed \in {{ErrTemplate}, {ErrParts}}
                   /\ ~template_file.exists => printed = {ErrTemplate}

\* a template with a marker, and no parts directory
C2_Witness ==
    /\ pc = "exited"
    /\ template_file.exists /\ ~parts_exists
    /\ findall(template_file.text) # <<>>

(***************************************************************************)
(* C4: the assembled output is the template with each recognized marker    *)
(* replaced by one block: the description comment, a newline, the          *)
(* "SOURCE: <path token>" comment with the token as the marker wrote it, a *)
(* newline, and the component's body or failure placeholder; the blocks    *)
(* stand in the order of their markers and the text between the markers    *)
(* is unchanged and in place.                                              *)
(***************************************************************************)
\* the template from position pos on, with the markers ms replaced by the
\* blocks of the claim, the bodies being those the calls returned
RECURSIVE ExpectedOutput(_, _, _, _)
ExpectedOutput(s, ms, calls, pos) ==
    IF ms = <<>> THEN From(s, pos)
    ELSE LET m == Head(ms)
         IN  SubSeq(s, pos, m.start - 1)
             \o CommentOpen \o strip(m.g2) \o CommentClose \o <<NL>>
             \o CommentOpen \o SourceLabel \o strip(m.g1) \o CommentClose \o <<NL>>
             \o Head(calls).content
             \o ExpectedOutput(s, Tail(ms), Tail(calls), m.end + 1)

C4_OutputIsTemplateWithBlocks ==
    Assembled
        => /\ Len(resolved) = Len(references)
           /\ final_content
                = ExpectedOutput(template_file.text, references, resolved, 1)

\* two markers with different path tokens, one written with the parts-dir
\* prefix, and text between them
C4_Witness ==
    /\ Assembled
    /\ Len(references) = 2
    /\ strip(references[1].g1) # strip(references[2].g1)
    /\ references[2].start > references[1].end + 1

(***************************************************************************)
(* C5: substitution is one level deep.  The markers are those of the       *)
(* original template: one component is resolved per marker of the          *)
(* template, and a component's text stands in the output as it is, even    *)
(* when it holds a marker or forms one with the template text around it.   *)
(***************************************************************************)
C5_SubstitutionIsOneLevelDeep ==
    "scan" \in did
        => LET ms == findall(template_file.text)
           IN  /\ Len(resolved) <= Len(ms)
               /\ Assembled => Len(resolved) = Len(ms)
               /\ \A k \in 1..Len(resolved) :
                    /\ resolved[k].path = strip(ms[k].g1)
                    /\ resolved[k].success
                         => /\ resolved[k].content
                                 = RemoveDeclaration(FileAt(resolved[k].full_path).text)
                            /\ Assembled
                                 => FindLit(final_content, 1, resolved[k].content) # 0

\* a component text that forms a marker with the template text after it:
\* the output holds a marker, and it is left as it is
C5_Witness ==
    /\ Assembled
    /\ Len(references) = 1
    /\ resolved[1].success
    /\ FindLit(resolved[1].content, 1, RefOpen) # 0
    /\ findall(final_content) # <<>>

(***************************************************************************)
(* C8: for a template without a recognized marker the build goes on, the   *)
(* warning is printed, and the output written is the template text; the    *)
(* warning is printed for such templates only.                             *)
(***************************************************************************)
ZeroMarkers == findall(template_file.text) = <<>>

C8_ZeroMarkersIsIdentityWithWarning ==
    /\ WarnNoReferences \in printed <=> ("scan" \in did /\ ZeroMarkers)
    /\ ("scan" \in did /\ ZeroMarkers)
         => /\ result # "raised"
            /\ pc \in {"validate", "write", "exited"}
            /\ final_content = template_file.text
            /\ resolved = <<>>
    /\ (pc = "exited" /\ result = "True" /\ ZeroMarkers)
         => out_file = Holding(template_file.text)

\* a template that holds a lone REFERENCE comment and no marker, written
C8_Witness ==
    /\ pc = "exited" /\ result = "True"
    /\ ZeroMarkers
    /\ FindLit(template_file.text, 1, RefOpen) # 0
    /\ out_file = Holding(template_file.text)

(***************************************************************************)
(* C3: a marker whose component is missing or cannot be read never ends    *)
(* the build and nothing is raised out of the substitution: the output     *)
(* holds the description comment, the SOURCE comment and one comment       *)
(* naming the path tried or the error; the other markers are substituted;  *)
(* without validation the build succeeds and writes the output.            *)
(***************************************************************************)
IsPlaceholder(call) ==
    \/ call.content = Comment(NotFoundMsg \o call.full_path)
    \/ call.content
         = Comment(FailedMsg \o StripPartsPrefix(call.path) \o <<":"," ">> \o StrError)

C3_ResolutionFailureIsInline ==
    "scan" \in did
        => /\ result # "raised"
           /\ Len(resolved) = Len(references)
           /\ \A k \in 1..Len(resolved) :
                ~resolved[k].success => IsPlaceholder(resolved[k])
           /\ final_content
                = ExpectedOutput(template_file.text, references, resolved, 1)
           /\ (pc = "exited" /\ ~validate /\ ErrWrite \notin printed)
                => result = "True" /\ out_file = Holding(final_content)

(***************************************************************************)
(* C6: when creating the output's parent directory or writing the output   *)
(* file fails, the build fails with a non-zero exit status and the output  *)
(* location is as it was before the build: no directory created, an        *)
(* existing output file neither truncated nor partly overwritten.          *)
(***************************************************************************)
C6_WriteFailureWritesNothing ==
    (pc = "exited" /\ ErrWrite \in printed)
        => Failed /\ OutputUntouched

(***************************************************************************)
(* C7: a marker is recognized only when the REFERENCE comment and the      *)
(* description comment are adjacent, with nothing but whitespace between   *)
(* them.  The comments of a text are found without the pattern: a comment  *)
(* runs from "<!--" to the first "-->" after it.                           *)
(***************************************************************************)
RECURSIVE CommentSpans(_, _)
CommentSpans(s, i) ==
    LET b == FindLit(s, i, <<"<","!","-","-">>)
        e == IF b = 0 THEN 0 ELSE FindLit(s, b + 4, <<"-","-",">">>)
    IN  IF b = 0 \/ e = 0 THEN <<>>
        ELSE <<[start |-> b, end |-> e + 2]>> \o CommentSpans(s, e + 3)

IsReferenceComment(s, c) == StartsWithAt(s, c.start, RefOpen)

\* the comments c and d, d the next after c, have only whitespace between
Adjacent(s, c, d) == \A j \in (c.end + 1)..(d.start - 1) : IsSpace(s[j])

Overlaps(m, c) == m.start <= c.end /\ c.start <= m.end

Matches == {references[k] : k \in 1..Len(references)}

\* C7 as stated: with anything but whitespace between a REFERENCE comment
\* and the next comment, both comments are left as literal text
C7_SeparatedCommentsBothLiteral ==
    "scan" \in did
        => LET s == template_file.text
               cs == CommentSpans(s, 1)
           IN  \A k \in 1..(Len(cs) - 1) :
                 (IsReferenceComment(s, cs[k]) /\ ~Adjacent(s, cs[k], cs[k + 1]))
                    => \A m \in Matches :
                         ~Overlaps(m, cs[k]) /\ ~Overlaps(m, cs[k + 1])

\* C7 as amended: every marker is a REFERENCE comment and the next comment,
\* adjacent.  A REFERENCE comment separated from the next comment never
\* opens a marker, and nothing is resolved for it; each of the two comments
\* is left as literal text unless it is part of a marker on its other side:
\* the REFERENCE comment as the description of the marker opened by a
\* REFERENCE comment adjacent before it, the next comment as the REFERENCE
\* comment of a marker of its own
C7_MarkerNeedsAdjacentComments ==
    "scan" \in did
        => LET s == template_file.text
               cs == CommentSpans(s, 1)
           IN  /\ \A m \in Matches :
                    \E k \in 1..(Len(cs) - 1) :
                       /\ m.start = cs[k].start /\ m.end = cs[k + 1].end
                       /\ IsReferenceComment(s, cs[k])
                       /\ Adjacent(s, cs[k], cs[k + 1])
               /\ \A k \in 1..(Len(cs) - 1) :
                    (IsReferenceComment(s, cs[k]) /\ ~Adjacent(s, cs[k], cs[k + 1]))
                       => /\ \A m \in Matches :
                               /\ m.start # cs[k].start
                               /\ Overlaps(m, cs[k]) => m.end = cs[k].end
                               /\ Overlaps(m, cs[k + 1]) => m.start = cs[k + 1].start
                          /\ (Assembled /\ \A m \in Matches : ~Overlaps(m, cs[k]))
                               => FindLit(final_content, 1,
                                          SubSeq(s, cs[k].start, cs[k].end)) # 0
               /\ Assembled => Len(resolved) = Len(references)

\* markup between a REFERENCE comment and the next comment, which opens a
\* marker of its own
C7_Witness ==
    /\ Assembled
    /\ LET s == template_file.text
           cs == CommentSpans(s, 1)
       IN  \E k \in 1..(Len(cs) - 1) :
              /\ IsReferenceComment(s, cs[k])
              /\ ~Adjacent(s, cs[k], cs[k + 1])
              /\ \E m \in Matches : m.start = cs[k + 1].start

(***************************************************************************)
(* C9: the token "<parts-dir name>/p" is resolved to the file p of the     *)
(* parts directory: the one leading segment is removed and no more.        *)
(***************************************************************************)
\* C9 as stated: for every p, the token with the prefix resolves as p does
C9_PrefixedTokenResolvesAsBare ==
    pc = "read_done" => rc[2] = rc[1]

\* C9 as amended: the prefixed token names the file p of the parts
\* directory, and resolves as the token p does when p does not itself
\* begin with the parts-dir name
C9_OnePrefixSegmentIsStripped ==
    pc = "read_done"
        => /\ rc[2].full_path = PathJoin(parts_dir, component_path)
           /\ ~startswith(component_path, Prefix) => rc[2] = rc[1]

\* the component a read through the token p/a
C9_Witness ==
    /\ pc = "read_done"
    /\ component_path = PathA
    /\ rc[2].success /\ rc[2] = rc[1]

(***************************************************************************)
(* C10: read_component returns a readable component's text without its     *)
(* first line exactly when that line, its trailing whitespace trimmed, is  *)
(* a declaration header; otherwise the text is returned whole, and no text *)
(* that is not part of the header is dropped.                              *)
(***************************************************************************)
IsDeclarationHeader(line) == rstrip(line) = XmlDeclaration

C10_OnlyTheDeclarationLineIsDropped ==
    (pc = "read_done" /\ rc[1].success)
        => LET text == FileAt(rc[1].full_path).text
           IN  rc[1].content = IF IsDeclarationHeader(FirstLine(text))
                               THEN AfterFirstLine(text)
                               ELSE text

====
